---- MODULE Spec2Model ----
(***************************************************************************)
(* BallPoint: the drill progression engine of App.tsx (startDrill,         *)
(* handleShotRecorded and its setSession updater), the two producers of    *)
(* shot events in CameraView (the Gemini tool-call callback and the        *)
(* keyboard simulation) and the navigation buttons.                        *)
(*                                                                         *)
(* currentStepIndex is 0-based as in the source; TLA+ sequences are        *)
(* 1-based, so steps[currentStepIndex] of the source is                    *)
(* steps[currentStepIndex + 1] here.                                       *)
(***************************************************************************)
EXTENDS Integers, Sequences, FiniteSets, TLC

\* ------------------------------------------------------------------ bounds
\* Longest shot log explored for one session.
MaxShots == 3
\* Largest threshold typed into the custom builder.
MaxTarget == 2
\* Largest number of zones selected in the custom builder.
MaxSteps == 2
\* Largest number of function calls in one tool-call message.
MaxBatch == 2
\* Most sessions started in one run of the app.
MaxSessions == 2
\* Latest reading of the clock.
MaxClock == 1

\* ------------------------------------------------------------------- types
MAKE == "MAKE"
MISS == "MISS"
ShotResult == {MAKE, MISS}

LEFT == "LEFT"
CENTER == "CENTER"
RIGHT == "RIGHT"
CourtPosition == {LEFT, CENTER, RIGHT}

HOME == "HOME"
ACTIVE_DRILL == "ACTIVE_DRILL"
STATS == "STATS"
AppView == {HOME, ACTIVE_DRILL, STATS}

\* useState<DrillSession | null>(null): the null state.
NoSession == [null |-> TRUE]

\* JavaScript truthiness of an optional numeric field of an object: an absent
\* field reads undefined, and undefined and 0 are falsy.
Truthy(obj, field) == field \in DOMAIN obj /\ obj[field] # 0

VARIABLES
    session,      \* App state: the DrillSession, or NoSession
    currentView,  \* App state: the AppView shown
    now,          \* the reading of Date.now()
    aiConnected,  \* a Gemini live connection has been opened (none is ever closed)
    captured,     \* the render-time session closed over by the AI callback
    crashed,      \* an updater threw: the render failed
    arrived,      \* shot events delivered to the current session before it completed
    signals,      \* step-advanced feedbacks (vibrate + sound) triggered so far
    archive,      \* the SessionStats records saveSession has stored, in order
    saveCalls,    \* the shot logs storageService.saveSession was called with
    timers,       \* pending setTimeout callbacks of the completion effect
    storageOk,    \* localStorage accepts reads and writes
    started,      \* sessions started so far
    builder,      \* DrillSelector state: selectedPositions, isMakeBased,
                  \* targetMakes, shotsPerPosition
    localStorage, \* localStorage['ballpoint_sessions']: null or a JSON text
    service       \* one GeminiLiveService: its fields, its pending awaits, and
                  \* what it has sent and invoked so far

vars == <<session, currentView, now, aiConnected, captured, crashed, arrived,
          signals, archive, saveCalls, timers, storageOk, started, builder,
          localStorage, service>>

\* -------------------------------------------------------------- programs
\* The state of the custom builder before anything is typed.
DefaultShotsPerPosition == 5
DefaultTargetMakes == 3

\* The state of DrillSelector when it mounts, and after resetCustom.
BuilderDefaults ==
    [selectedPositions |-> << >>,
     isMakeBased |-> FALSE,
     targetMakes |-> DefaultTargetMakes,
     shotsPerPosition |-> DefaultShotsPerPosition]

\* DrillStep: a position and optional targetMakes / targetAttempts.
AttemptStep(pos, n) == [position |-> pos, targetAttempts |-> n]
MakeStep(pos, n) == [position |-> pos, targetMakes |-> n]

predefinedDrills ==
    << << AttemptStep(LEFT, 5), AttemptStep(CENTER, 5), AttemptStep(RIGHT, 5) >>,
       << MakeStep(LEFT, 3), MakeStep(CENTER, 3), MakeStep(RIGHT, 3) >>,
       << AttemptStep(CENTER, 3) >> >>

\* A variant that sets both thresholds on every step.
handleCreateCustom_both(selectedPositions, isMakeBased, targetMakes, shotsPerPosition) ==
    [i \in 1..Len(selectedPositions) |->
        [position |-> selectedPositions[i],
         targetMakes |-> targetMakes,
         targetAttempts |-> shotsPerPosition]]

\* The step list handleCreateCustom builds from the builder's state.
handleCreateCustom(selectedPositions, isMakeBased, targetMakes, shotsPerPosition) ==
    [i \in 1..Len(selectedPositions) |->
        IF isMakeBased
        THEN MakeStep(selectedPositions[i], targetMakes)
        ELSE AttemptStep(selectedPositions[i], shotsPerPosition)]

\* Zone lists togglePosition can build: a zone already selected is removed,
\* so every list is duplicate-free; the move and remove buttons permute and
\* shorten it.
SelectablePositions ==
    {ps \in UNION {[1..n -> CourtPosition] : n \in 1..MaxSteps} :
        \A i, j \in DOMAIN ps : i # j => ps[i] # ps[j]}

\* The step lists handed to startDrill: a catalog entry, or a custom program.
Programs ==
    {predefinedDrills[i] : i \in DOMAIN predefinedDrills}
    \cup {handleCreateCustom(ps, mb, t, t) :
            ps \in SelectablePositions, mb \in BOOLEAN, t \in 1..MaxTarget}

\* ---------------------------------------------------------------- engine
\* A variant that keeps the shot log of the session before.
NewSession_carryOver(steps, t) ==
    [id |-> ToString(t),
     name |-> "Training Session",
     steps |-> steps,
     currentStepIndex |-> 0,
     shots |-> IF session = NoSession THEN << >> ELSE session.shots,
     isActive |-> TRUE,
     completed |-> FALSE]

\* The session startDrill creates at clock reading t.
NewSession(steps, t) ==
    [id |-> ToString(t),
     name |-> "Training Session",
     steps |-> steps,
     currentStepIndex |-> 0,
     shots |-> << >>,
     isActive |-> TRUE,
     completed |-> FALSE]

\* The Shot record handleShotRecorded builds at clock reading t.
NewShot(result, position, t) ==
    [id |-> ToString(t), result |-> result, position |-> position, timestamp |-> t]

\* The guard at the top of handleShotRecorded; it reads the session of the
\* render that created the callback.
Guard(renderSession) ==
    renderSession # NoSession /\ renderSession.isActive

\* The log the updater returns: [...prev.shots, newShot].
NextShots(prev, newShot) == prev.shots \o << newShot >>

\* A variant without the position test: every shot goes on to the count.
OffTarget_never(newShot, step) == FALSE

\* The position test of the updater: the shot is not at the step's zone.
OffTarget(newShot, step) == newShot.position # step.position

\* A variant that counts only the shots logged at the clock reading of the
\* newest one.
RelevantShots_sameInstant(nextShots, step) ==
    SelectSeq(nextShots,
              LAMBDA s : /\ s.position = step.position
                         /\ s.timestamp = nextShots[Len(nextShots)].timestamp)

\* The shots the updater counts for the step: those of the whole log at the
\* step's position.
RelevantShots(nextShots, step) ==
    SelectSeq(nextShots, LAMBDA s : s.position = step.position)

Makes(relevantShots) == Len(SelectSeq(relevantShots, LAMBDA s : s.result = MAKE))

Attempts(relevantShots) == Len(relevantShots)

\* A variant that reads an absent threshold as 0.
StepComplete_defaultZero(step, attempts, makes) ==
    IF "targetAttempts" \in DOMAIN step
    THEN attempts >= step.targetAttempts
    ELSE IF "targetMakes" \in DOMAIN step
         THEN makes >= step.targetMakes
         ELSE TRUE

\* The completion test of the updater for one step and the counts of the log.
StepComplete(step, attempts, makes) ==
    IF Truthy(step, "targetAttempts") /\ attempts >= step.targetAttempts
    THEN TRUE
    ELSE Truthy(step, "targetMakes") /\ makes >= step.targetMakes

\* A variant that also skips the following steps whose threshold the log
\* already meets.
NextIndex_cascading(prev) ==
    LET met(i) ==
            LET rel == RelevantShots(prev.shots, prev.steps[i + 1]) IN
            StepComplete(prev.steps[i + 1], Attempts(rel), Makes(rel))
        open == {i \in (prev.currentStepIndex + 1)..(Len(prev.steps) - 1) : ~met(i)}
    IN IF open = {} THEN Len(prev.steps)
       ELSE CHOOSE i \in open : \A j \in open : i <= j

\* The index the updater moves to when a step is complete.
NextIndex(prev) == prev.currentStepIndex + 1

\* A variant of the test that is off by one.
DrillFinished_offByOne(prev, nextIndex) == nextIndex > Len(prev.steps)

\* The test of the "Drill Finished" branch.
DrillFinished(prev, nextIndex) == nextIndex >= Len(prev.steps)

\* The three records the updater returns.
Logged(prev, nextShots) == [prev EXCEPT !.shots = nextShots]

Advanced(prev, nextShots, nextIndex) ==
    [prev EXCEPT !.shots = nextShots, !.currentStepIndex = nextIndex]

\* A variant of the terminal record that leaves isActive as it was.
Finished_stillActive(prev, nextShots, nextIndex) ==
    [prev EXCEPT !.shots = nextShots,
                 !.currentStepIndex = nextIndex,
                 !.completed = TRUE]

Finished(prev, nextShots, nextIndex) ==
    [prev EXCEPT !.shots = nextShots,
                 !.currentStepIndex = nextIndex,
                 !.isActive = FALSE,
                 !.completed = TRUE]

\* A variant that starts the drill over when the index is past the last step.
PastLastStep_restart(prev, newShot) ==
    [state |-> [prev EXCEPT !.shots = << newShot >>,
                            !.currentStepIndex = 0,
                            !.isActive = TRUE,
                            !.completed = FALSE],
     signalled |-> FALSE, threw |-> FALSE]

\* prev.steps[prev.currentStepIndex] is undefined when the index is outside
\* the list, and the position test then reads step.position of undefined: a
\* TypeError. The updater returns nothing.
PastLastStep(prev, newShot) ==
    [state |-> prev, signalled |-> FALSE, threw |-> TRUE]

\* The function passed to setSession: the next state, whether the
\* step-advanced feedback (vibrate, playZoneChangeSound) ran, and whether
\* it threw.
Updater(prev, newShot) ==
    IF prev = NoSession
    THEN [state |-> NoSession, signalled |-> FALSE, threw |-> FALSE]
    ELSE
      LET nextShots == NextShots(prev, newShot) IN
      IF prev.currentStepIndex + 1 \notin DOMAIN prev.steps
      THEN PastLastStep(prev, newShot)
      ELSE
        LET step == prev.steps[prev.currentStepIndex + 1] IN
        IF OffTarget(newShot, step)
        THEN [state |-> Logged(prev, nextShots),
              signalled |-> FALSE, threw |-> FALSE]
        ELSE
          LET relevantShots == RelevantShots(nextShots, step)
              makes == Makes(relevantShots)
              attempts == Attempts(relevantShots)
          IN
          IF StepComplete(step, attempts, makes)
          THEN
            LET nextIndex == NextIndex(prev) IN
            IF DrillFinished(prev, nextIndex)
            THEN [state |-> Finished(prev, nextShots, nextIndex),
                  signalled |-> TRUE, threw |-> FALSE]
            ELSE [state |-> Advanced(prev, nextShots, nextIndex),
                  signalled |-> TRUE, threw |-> FALSE]
          ELSE [state |-> Logged(prev, nextShots),
                signalled |-> FALSE, threw |-> FALSE]

\* The session after one applyShot call; prev itself when the updater throws.
applyShot(prev, newShot) == Updater(prev, newShot).state

\* The shot events of one task, each passed to handleShotRecorded with the
\* same render-time session: every call that passes the guard queues one
\* updater, and React runs the queue in order on the latest state. The
\* result carries the state after the queue, the feedbacks that ran, the
\* events that met a session not yet completed, and whether an updater threw
\* (the queue stops there).
RECURSIVE RunQueue(_, _, _)
RunQueue(prev, events, t) ==
    IF events = << >>
    THEN [state |-> prev, signalled |-> 0, accepted |-> 0, threw |-> FALSE]
    ELSE
      LET e == Head(events)
          r == Updater(prev, NewShot(e.result, e.position, t))
          live == IF prev # NoSession /\ ~prev.completed THEN 1 ELSE 0
      IN
      IF r.threw
      THEN [state |-> prev, signalled |-> 0, accepted |-> live, threw |-> TRUE]
      ELSE
        LET rest == RunQueue(r.state, Tail(events), t) IN
        [state |-> rest.state,
         signalled |-> rest.signalled + (IF r.signalled THEN 1 ELSE 0),
         accepted |-> rest.accepted + live,
         threw |-> rest.threw]

\* ------------------------------------------------------------- producers
\* What an absent value reads as.
undefined == "undefined"

\* The function calls a tool-call message of the live session carries: calls
\* of logShot with arguments of the enums the tool declares.
RawCalls ==
    {[name |-> "logShot", result |-> r, position |-> p] :
        r \in {"MAKE", "MISS"}, p \in {"LEFT", "CENTER", "RIGHT"}}

\* The tool-call messages of n function calls.
Messages(n) == [1..n -> RawCalls]

\* A variant that hands the strings of the call on as they came.
onShotDetected_raw(res, pos) == [result |-> res, position |-> pos]

\* The onShotDetected callback CameraView passes to connect: strings to enums.
onShotDetected(res, pos) ==
    [result |-> IF res = "MAKE" THEN MAKE ELSE MISS,
     position |-> IF pos = "LEFT" THEN LEFT
                  ELSE IF pos = "RIGHT" THEN RIGHT ELSE CENTER]

\* The loop of onmessage over message.toolCall.functionCalls: the events it
\* hands to onShotRecorded, in order.
RECURSIVE onmessage(_)
onmessage(functionCalls) ==
    IF functionCalls = << >> THEN << >>
    ELSE LET fc == Head(functionCalls) IN
         (IF fc.name = "logShot"
          THEN << onShotDetected(fc.result, fc.position) >>
          ELSE << >>) \o onmessage(Tail(functionCalls))

\* A variant that keeps showing the last zone once the drill is completed.
getActivePosition_lastZone(s) ==
    IF s = NoSession THEN undefined
    ELSE IF s.completed THEN s.steps[Len(s.steps)].position
    ELSE IF s.currentStepIndex + 1 \in DOMAIN s.steps
         THEN s.steps[s.currentStepIndex + 1].position
         ELSE undefined

\* getActivePosition of App, the activePosition prop of CameraView.
getActivePosition(s) ==
    IF s = NoSession \/ s.completed THEN undefined
    ELSE IF s.currentStepIndex + 1 \in DOMAIN s.steps
         THEN s.steps[s.currentStepIndex + 1].position
         ELSE undefined

\* A variant that always shows the attempts at the zone.
getInstruction_attempts(s) ==
    IF s = NoSession THEN [text |-> "Select a drill"]
    ELSE IF s.completed THEN [text |-> "Drill Complete!"]
    ELSE IF s.currentStepIndex + 1 \notin DOMAIN s.steps
    THEN [text |-> "Loading..."]
    ELSE
      LET step == s.steps[s.currentStepIndex + 1]
          relevantShots == RelevantShots(s.shots, step)
      IN [text |-> "Move to",
          position |-> step.position,
          currentCount |-> Len(relevantShots),
          target |-> IF Truthy(step, "targetMakes") THEN step.targetMakes
                     ELSE IF "targetAttempts" \in DOMAIN step
                          THEN step.targetAttempts ELSE 0]

\* getInstruction of App: the fixed texts, or the parts of
\* `Move to ${step.position}: ${currentCount} / ${target}`. A target read
\* from a step with no truthy threshold is given as 0.
getInstruction(s) ==
    IF s = NoSession THEN [text |-> "Select a drill"]
    ELSE IF s.completed THEN [text |-> "Drill Complete!"]
    ELSE IF s.currentStepIndex + 1 \notin DOMAIN s.steps
    THEN [text |-> "Loading..."]
    ELSE
      LET step == s.steps[s.currentStepIndex + 1]
          relevantShots == RelevantShots(s.shots, step)
      IN [text |-> "Move to",
          position |-> step.position,
          currentCount |-> IF Truthy(step, "targetMakes")
                           THEN Makes(relevantShots)
                           ELSE Len(relevantShots),
          target |-> IF Truthy(step, "targetMakes") THEN step.targetMakes
                     ELSE IF "targetAttempts" \in DOMAIN step
                          THEN step.targetAttempts ELSE 0]

\* The indices of session.steps the two helpers read: none before the
\* guards on the session and on completed have passed.
StepLookups(s) ==
    IF s = NoSession \/ s.completed THEN {} ELSE {s.currentStepIndex}

\* CameraView is rendered: the drill view with a session not yet completed.
CameraMounted ==
    currentView = ACTIVE_DRILL /\ session # NoSession /\ ~session.completed

\* ------------------------------------------------------ completion effect
\* Math.round(makes / length * 100) of saveSession, 0 for an empty log.
Percentage(makes, length) ==
    IF length > 0 THEN (200 * makes + length) \div (2 * length) ELSE 0

\* The SessionStats record storageService.saveSession builds at clock
\* reading t.
saveSession(shots, t) ==
    LET makes == Len(SelectSeq(shots, LAMBDA x : x.result = MAKE)) IN
    [id |-> ToString(t),
     date |-> t,
     totalShots |-> Len(shots),
     makes |-> makes,
     percentage |-> Percentage(makes, Len(shots)),
     shots |-> shots]

\* What localStorage.getItem gives for a key that holds no item.
null == [null |-> TRUE]

\* The numbers the stored records hold, for reading a decimal text back.
Numbers == 0..(MaxShots + MaxClock + 100)

\* JSON.stringify of a number, a string, a shot, a list of shots, a
\* SessionStats record and a list of them: numbers become their decimal
\* text, strings are quoted, an object becomes its members in the order its
\* keys were created, an array its elements in order.
JsonNumber(n) == [num |-> ToString(n)]
JsonString(str) == [str |-> str]
JsonShot(shot) ==
    [obj |-> << << "id", JsonString(shot.id) >>,
                << "result", JsonString(shot.result) >>,
                << "position", JsonString(shot.position) >>,
                << "timestamp", JsonNumber(shot.timestamp) >> >>]
JsonShots(shots) == [arr |-> [i \in DOMAIN shots |-> JsonShot(shots[i])]]
JsonStats(stats) ==
    [obj |-> << << "id", JsonString(stats.id) >>,
                << "date", JsonNumber(stats.date) >>,
                << "totalShots", JsonNumber(stats.totalShots) >>,
                << "makes", JsonNumber(stats.makes) >>,
                << "percentage", JsonNumber(stats.percentage) >>,
                << "shots", JsonShots(stats.shots) >> >>]
stringify(sessions) == [arr |-> [i \in DOMAIN sessions |-> JsonStats(sessions[i])]]

\* JSON.parse of such a text: the member of an object by its key, a decimal
\* text read back as the number it denotes.
Member(json, key) ==
    LET i == CHOOSE i \in DOMAIN json.obj : json.obj[i][1] = key IN json.obj[i][2]
ParseNumber(json) == CHOOSE n \in Numbers : ToString(n) = json.num
ParseShot(json) ==
    [id |-> Member(json, "id").str,
     result |-> Member(json, "result").str,
     position |-> Member(json, "position").str,
     timestamp |-> ParseNumber(Member(json, "timestamp"))]
ParseStats(json) ==
    LET shots == Member(json, "shots").arr IN
    [id |-> Member(json, "id").str,
     date |-> ParseNumber(Member(json, "date")),
     totalShots |-> ParseNumber(Member(json, "totalShots")),
     makes |-> ParseNumber(Member(json, "makes")),
     percentage |-> ParseNumber(Member(json, "percentage")),
     shots |-> [i \in DOMAIN shots |-> ParseShot(shots[i])]]
parse(json) == [i \in DOMAIN json.arr |-> ParseStats(json.arr[i])]

\* storageService.getAllSessions on the item stored.
getAllSessions(stored) == IF stored # null THEN parse(stored) ELSE << >>

\* A variant of the write that keeps the new record only.
setItem_overwrite(stored, stats) == stringify(<< stats >>)

\* The item saveSession writes: the sessions read back, the new record
\* pushed after them, stringified.
setItem(stored, stats) == stringify(Append(getAllSessions(stored), stats))

\* A GeminiLiveService as its constructor leaves it, nothing sent yet.
Constructed ==
    [active |-> FALSE,
     sessionPromise |-> FALSE,
     connectCalled |-> FALSE,
     opened |-> FALSE,
     disconnectCalled |-> FALSE,
     disconnectAwaiting |-> FALSE,
     sendCalls |-> 0,
     awaiting |-> 0,
     framesSent |-> 0,
     lateFrames |-> 0,
     received |-> << >>,
     effects |-> << >>]

\* session?.completed, the one dependency of the completion effect.
CompletionDep(s) ==
    IF s = NoSession THEN undefined
    ELSE IF s.completed THEN "true" ELSE "false"

\* A variant that runs the effect after every render.
EffectDue_everyRender(prev, next) == TRUE

\* The effect runs after a render whose dependency differs from that of
\* the render before.
EffectDue(prev, next) == CompletionDep(prev) # CompletionDep(next)

\* The completion effect after the render that commits session'. It saves
\* the log and then schedules the redirect to the stats view; saveSession
\* has no try/catch around it, so a storage failure leaves the effect by an
\* exception before the timeout is set, which fails the render just as a
\* throwing updater does. failed tells whether the render had already failed.
CompletionEffect(failed) ==
    IF EffectDue(session, session') /\ session' # NoSession /\ session'.completed
    THEN /\ saveCalls' = Append(saveCalls, session'.shots)
         /\ IF storageOk
            THEN /\ archive' = Append(archive, saveSession(session'.shots, now))
                 /\ localStorage' = setItem(localStorage, saveSession(session'.shots, now))
                 /\ timers' = timers + 1
                 /\ crashed' = failed
            ELSE /\ crashed' = TRUE
                 /\ UNCHANGED <<archive, localStorage, timers>>
    ELSE /\ crashed' = failed
         /\ UNCHANGED <<saveCalls, archive, localStorage, timers>>

\* ----------------------------------------------------------------- actions
\* The state after the first render of App, whatever the storage does.
Mounted ==
    /\ session = NoSession
    /\ currentView = HOME
    /\ now = 0
    /\ aiConnected = FALSE
    /\ captured = NoSession
    /\ crashed = FALSE
    /\ arrived = 0
    /\ signals = 0
    /\ archive = << >>
    /\ saveCalls = << >>
    /\ timers = 0
    /\ started = 0
    /\ builder = BuilderDefaults
    /\ localStorage = null
    /\ service = Constructed

Init == Mounted /\ storageOk = TRUE

\* startDrill, called by DrillSelector (rendered in the HOME view only); the
\* render that follows mounts CameraView, whose effect opens a live
\* connection with a callback closing over that render's handleShotRecorded,
\* and unmounts DrillSelector, whose state is gone with it.
startDrill(steps) ==
    /\ currentView = HOME
    /\ ~crashed
    /\ session' = NewSession(steps, now)
    /\ currentView' = ACTIVE_DRILL
    /\ aiConnected' = TRUE
    /\ captured' = session'
    /\ arrived' = 0
    /\ started' = started + 1
    /\ builder' = BuilderDefaults
    /\ CompletionEffect(FALSE)
    /\ UNCHANGED <<now, signals, storageOk, service>>

\* handleShotRecorded called once per event of one task by a callback whose
\* closure holds renderSession, and the rendering that runs the updaters.
\* An updater that throws fails its render. A root that batches the updates
\* of a task runs them in one render and commits none of them; a root that
\* renders on each setSession has committed those before the throwing one.
handleShotRecorded(renderSession, events) ==
    IF ~Guard(renderSession)
    THEN UNCHANGED vars
    ELSE
      LET q == RunQueue(session, events, now) IN
      /\ session' \in (IF q.threw THEN {session, q.state} ELSE {q.state})
      /\ arrived' = arrived + q.accepted
      /\ signals' = signals + q.signalled
      /\ CompletionEffect(q.threw)
      /\ UNCHANGED <<currentView, now, aiConnected, captured, storageOk, started,
                     builder, service>>

\* A tool-call message on a live connection (disconnect closes none, so the
\* callbacks of every connection opened stay registered).
AIMessage(functionCalls) ==
    /\ ~crashed
    /\ aiConnected
    /\ handleShotRecorded(captured, onmessage(functionCalls))

\* The events one task can deliver within MaxShots: the free places of the
\* log, and one more event, which then meets the session completed.
Room ==
    IF session = NoSession THEN 0
    ELSE IF session.completed THEN 1
    ELSE MaxShots - Len(session.shots) + 1

\* The log stays within MaxShots.
WithinBound == session' = NoSession \/ Len(session'.shots) <= MaxShots

\* A variant whose listener records every shot at CENTER.
KeyDown_center(key) ==
    /\ ~crashed
    /\ CameraMounted
    /\ IF key = "ArrowUp"
       THEN handleShotRecorded(session, << [result |-> MAKE, position |-> CENTER] >>)
       ELSE IF key = "ArrowDown"
            THEN handleShotRecorded(session, << [result |-> MISS, position |-> CENTER] >>)
            ELSE UNCHANGED vars

\* The keydown listener CameraView registers while mounted; it is registered
\* again after every render, so it holds the current render's props.
KeyDown(key) ==
    /\ ~crashed
    /\ CameraMounted
    /\ LET isActive == ~session.completed
           activePosition == getActivePosition(session)
       IN
       IF ~isActive \/ activePosition = undefined
       THEN UNCHANGED vars
       ELSE IF key = "ArrowUp"
            THEN handleShotRecorded(session,
                    << [result |-> MAKE, position |-> activePosition] >>)
            ELSE IF key = "ArrowDown"
                 THEN handleShotRecorded(session,
                        << [result |-> MISS, position |-> activePosition] >>)
                 ELSE UNCHANGED vars

Keys == {"ArrowUp", "ArrowDown", "Enter"}

Next ==
    \/ \E steps \in Programs : startDrill(steps)
    \/ \E n \in 1..MaxBatch :
          n <= Room /\ \E m \in Messages(n) : AIMessage(m) /\ WithinBound
    \/ \E key \in Keys : KeyDown(key) /\ WithinBound

Spec == Init /\ [][Next]_vars

\* --------------------------------------------------------------- lifecycle
\* Texts of the threshold field, and what parseInt reads from the numeric
\* ones (the empty text parses to NaN).
ThresholdTexts == {"", "-1", "0", "1"}
IsNumeric(text) == text # ""
parseInt(text) ==
    CASE text = "-1" -> -1
      [] text = "0" -> 0
      [] text = "1" -> 1

\* onChange of the threshold field: parseInt(e.target.value) || 1.
ThresholdOnChange(text) ==
    IF ~IsNumeric(text) \/ parseInt(text) = 0 THEN 1 ELSE parseInt(text)

\* The "Start Drill" button of the custom builder after the zones were
\* toggled, the policy chosen and text typed into the threshold field (which
\* sets the threshold of the chosen policy only). An empty selection alerts
\* and starts nothing.
CreateCustom(selectedPositions, isMakeBased, text) ==
    /\ currentView = HOME
    /\ ~crashed
    /\ IF Len(selectedPositions) = 0
       THEN UNCHANGED vars
       ELSE LET val == ThresholdOnChange(text) IN
            startDrill(handleCreateCustom(selectedPositions, isMakeBased,
                          IF isMakeBased THEN val ELSE DefaultTargetMakes,
                          IF isMakeBased THEN DefaultShotsPerPosition ELSE val))

\* A card of the catalog is clicked.
SelectDrill(i) == startDrill(predefinedDrills[i])

\* The navigation buttons: a render with the session as it was, after which
\* the completion effect is due or not as after any render. Leaving the
\* HOME view unmounts DrillSelector.
GoHome ==
    /\ ~crashed
    /\ currentView' = HOME
    /\ session' = session
    /\ CompletionEffect(FALSE)
    /\ UNCHANGED <<now, aiConnected, captured, arrived, signals, storageOk,
                   started, builder, service>>

GoStats ==
    /\ ~crashed
    /\ currentView' = STATS
    /\ session' = session
    /\ builder' = BuilderDefaults
    /\ CompletionEffect(FALSE)
    /\ UNCHANGED <<now, aiConnected, captured, arrived, signals, storageOk,
                   started, service>>

\* The timeout of the completion effect fires: setCurrentView(STATS), which
\* does nothing on an unmounted tree.
RedirectTimer ==
    /\ timers > 0
    /\ timers' = timers - 1
    /\ currentView' = IF crashed THEN currentView ELSE STATS
    /\ builder' = IF crashed THEN builder ELSE BuilderDefaults
    /\ UNCHANGED <<session, now, aiConnected, captured, crashed, arrived,
                   signals, archive, saveCalls, storageOk, started,
                   localStorage, service>>

\* The inputs of the lifecycle: the zone selections of the builder, and the
\* function calls of the live session.
AppSelections == {<< >>, << CENTER >>}
AppCalls == {[name |-> "logShot", result |-> "MAKE", position |-> "CENTER"]}

InitApp == Mounted /\ storageOk \in BOOLEAN

NextApp ==
    \/ /\ started < MaxSessions
       /\ \E ps \in AppSelections, mb \in BOOLEAN, text \in ThresholdTexts :
             CreateCustom(ps, mb, text)
    \/ /\ started < MaxSessions
       /\ \E i \in DOMAIN predefinedDrills : SelectDrill(i)
    \/ \E key \in Keys : KeyDown(key) /\ WithinBound
    \/ Room >= 1 /\ \E fc \in AppCalls : AIMessage(<< fc >>) /\ WithinBound
    \/ GoHome
    \/ GoStats
    \/ RedirectTimer

SpecApp == InitApp /\ [][NextApp]_vars

\* ------------------------------------------------- one drill, left to run
\* The function calls of the live session when the classifier also answers
\* outside the enums of the tool declaration.
LiveCalls ==
    AppCalls \cup {[name |-> "logShot", result |-> "make", position |-> "TOP"]}

\* A drill is started and nobody touches the navigation: tool-call messages
\* of up to MaxBatch calls arrive, the user at the active zone keeps scoring
\* (ArrowUp), and the timeout of the completion effect fires.
NextLive ==
    \/ /\ started < MaxSessions
       /\ \E ps \in AppSelections, mb \in BOOLEAN, text \in ThresholdTexts :
             CreateCustom(ps, mb, text)
    \/ /\ started < MaxSessions
       /\ \E i \in DOMAIN predefinedDrills : SelectDrill(i)
    \/ KeyDown("ArrowUp")
    \/ \E n \in 1..MaxBatch :
          n <= Room /\ \E m \in [1..n -> LiveCalls] : AIMessage(m) /\ WithinBound
    \/ RedirectTimer

SpecLive == InitApp /\ [][NextLive]_vars

\* The shots keep coming and a timeout that was set does fire.
SpecFair ==
    SpecLive /\ WF_vars(KeyDown("ArrowUp")) /\ WF_vars(RedirectTimer)

\* ------------------------------------------------- the keyboard alone
\* The zone selections of the drills run from the keyboard.
KeyboardSelections == {<< >>, << CENTER >>, << LEFT, CENTER >>}

\* The application with no live connection delivering anything: drills are
\* started, keys are pressed, the user navigates, the timeout fires.
NextKeyboard ==
    \/ /\ started < MaxSessions
       /\ \E ps \in KeyboardSelections, mb \in BOOLEAN, text \in ThresholdTexts :
             CreateCustom(ps, mb, text)
    \/ /\ started < MaxSessions
       /\ \E i \in DOMAIN predefinedDrills : SelectDrill(i)
    \/ \E key \in Keys : KeyDown(key) /\ WithinBound
    \/ GoHome
    \/ GoStats
    \/ RedirectTimer

SpecKeyboard == InitApp /\ [][NextKeyboard]_vars

\* ------------------------------------------------------ the custom builder
\* A variant that appends the zone whether or not it is selected.
togglePosition_append(selectedPositions, pos) ==
    Append(selectedPositions, pos)

\* togglePosition: a selected zone is removed, another is appended.
togglePosition(selectedPositions, pos) ==
    IF \E i \in DOMAIN selectedPositions : selectedPositions[i] = pos
    THEN SelectSeq(selectedPositions, LAMBDA p : p # pos)
    ELSE Append(selectedPositions, pos)

\* The list with the entries at (1-based) places i and j exchanged.
Swap(seq, i, j) ==
    [k \in DOMAIN seq |-> IF k = i THEN seq[j] ELSE IF k = j THEN seq[i] ELSE seq[k]]

\* movePositionUp / movePositionDown / removePosition for a 0-based index
\* of the list.
movePositionUp(selectedPositions, index) ==
    IF index > 0
    THEN Swap(selectedPositions, index + 1, index)
    ELSE selectedPositions

movePositionDown(selectedPositions, index) ==
    IF index < Len(selectedPositions) - 1
    THEN Swap(selectedPositions, index + 1, index + 2)
    ELSE selectedPositions

removePosition(selectedPositions, index) ==
    [k \in 1..(Len(selectedPositions) - 1) |->
        IF k < index + 1 THEN selectedPositions[k] ELSE selectedPositions[k + 1]]

\* DrillSelector is rendered and the app is running.
BuilderShown == currentView = HOME /\ ~crashed

\* A change of the builder's state and of nothing else.
BuilderBecomes(next) ==
    /\ BuilderShown
    /\ builder' = next
    /\ UNCHANGED <<session, currentView, now, aiConnected, captured, crashed,
                   arrived, signals, archive, saveCalls, timers, storageOk,
                   started, localStorage, service>>

\* The zone buttons, and the arrows and the cross of a listed zone.
TogglePosition(pos) ==
    BuilderBecomes([builder EXCEPT
        !.selectedPositions = togglePosition(builder.selectedPositions, pos)])

MovePositionUp(index) ==
    /\ index < Len(builder.selectedPositions)
    /\ BuilderBecomes([builder EXCEPT
          !.selectedPositions = movePositionUp(builder.selectedPositions, index)])

MovePositionDown(index) ==
    /\ index < Len(builder.selectedPositions)
    /\ BuilderBecomes([builder EXCEPT
          !.selectedPositions = movePositionDown(builder.selectedPositions, index)])

RemovePosition(index) ==
    /\ index < Len(builder.selectedPositions)
    /\ BuilderBecomes([builder EXCEPT
          !.selectedPositions = removePosition(builder.selectedPositions, index)])

\* The two policy buttons.
SetIsMakeBased(b) == BuilderBecomes([builder EXCEPT !.isMakeBased = b])

\* Text typed into the threshold field: it sets the threshold of the policy
\* chosen at the time.
ThresholdTyped(text) ==
    BuilderBecomes(
        IF builder.isMakeBased
        THEN [builder EXCEPT !.targetMakes = ThresholdOnChange(text)]
        ELSE [builder EXCEPT !.shotsPerPosition = ThresholdOnChange(text)])

\* The cancel button.
resetCustom == BuilderBecomes(BuilderDefaults)

\* The "Start Drill" button: handleCreateCustom on the builder's state.
StartCustom ==
    /\ BuilderShown
    /\ IF Len(builder.selectedPositions) = 0
       THEN UNCHANGED vars
       ELSE startDrill(handleCreateCustom(builder.selectedPositions,
                                          builder.isMakeBased,
                                          builder.targetMakes,
                                          builder.shotsPerPosition))

\* The selections one zone button, arrow or cross leads to from sel, and
\* those any sequence of them leads to from the selections of S.
BuilderMoves(sel) ==
    {togglePosition(sel, pos) : pos \in CourtPosition}
    \cup {movePositionUp(sel, i) : i \in 0..(Len(sel) - 1)}
    \cup {movePositionDown(sel, i) : i \in 0..(Len(sel) - 1)}
    \cup {removePosition(sel, i) : i \in 0..(Len(sel) - 1)}

RECURSIVE BuilderClosure(_)
BuilderClosure(S) ==
    LET T == S \cup UNION {BuilderMoves(sel) : sel \in S} IN
    IF T = S THEN S ELSE BuilderClosure(T)

NextBuilder ==
    \/ \E pos \in CourtPosition : TogglePosition(pos)
    \/ \E index \in 0..2 : MovePositionUp(index)
    \/ \E index \in 0..2 : MovePositionDown(index)
    \/ \E index \in 0..2 : RemovePosition(index)
    \/ \E b \in BOOLEAN : SetIsMakeBased(b)
    \/ \E text \in ThresholdTexts : ThresholdTyped(text)
    \/ resetCustom
    \/ started < MaxSessions /\ StartCustom
    \/ GoHome

SpecBuilder == InitApp /\ [][NextBuilder]_vars

\* ------------------------------------------------------ the engine alone
\* A step carrying both thresholds, which the DrillStep type allows.
BothStep(pos, a, m) == [position |-> pos, targetAttempts |-> a, targetMakes |-> m]

\* A step carrying no threshold, which the DrillStep type allows as well.
BareStep(pos) == [position |-> pos]

\* Step lists of the DrillStep type over two zone lists: one policy for all
\* steps, both thresholds on every step, or no threshold on any.
EngineZones == {<< LEFT >>, << LEFT, CENTER >>}
EnginePrograms ==
    {handleCreateCustom(ps, mb, t, t) :
        ps \in EngineZones, mb \in BOOLEAN, t \in 1..MaxTarget}
    \cup {[i \in 1..Len(ps) |-> BothStep(ps[i], a, m)] :
            ps \in EngineZones, a \in 1..MaxTarget, m \in 1..MaxTarget}
    \cup {[i \in 1..Len(ps) |-> BareStep(ps[i])] : ps \in EngineZones}

\* The shot events fed to the engine.
EngineEvents == [result : ShotResult, position : {LEFT, CENTER}]

\* A session just created by startDrill from a step list, at some reading
\* of the clock.
InitEngine ==
    /\ now \in 0..MaxClock
    /\ \E steps \in EnginePrograms : session = NewSession(steps, now)
    /\ currentView = ACTIVE_DRILL
    /\ aiConnected = FALSE
    /\ captured = NoSession
    /\ crashed = FALSE
    /\ arrived = 0
    /\ signals = 0
    /\ archive = << >>
    /\ saveCalls = << >>
    /\ timers = 0
    /\ storageOk = TRUE
    /\ started = 1
    /\ builder = BuilderDefaults
    /\ localStorage = null
    /\ service = Constructed

\* The updater of handleShotRecorded applied to the session for one event.
ApplyShot(e) ==
    /\ ~session.completed
    /\ Len(session.shots) < MaxShots
    /\ session' = applyShot(session, NewShot(e.result, e.position, now))
    /\ UNCHANGED <<currentView, now, aiConnected, captured, crashed, arrived,
                   signals, archive, saveCalls, timers, storageOk, started,
                   builder, localStorage, service>>

\* Date.now() moves on.
Tick ==
    /\ now < MaxClock
    /\ now' = now + 1
    /\ UNCHANGED <<session, currentView, aiConnected, captured, crashed,
                   arrived, signals, archive, saveCalls, timers, storageOk,
                   started, builder, localStorage, service>>

NextEngine ==
    \/ \E e \in EngineEvents : ApplyShot(e)
    \/ Tick

SpecEngine == InitEngine /\ [][NextEngine]_vars

\* ------------------------------------------------------ the storage alone
\* Longest shot log handed to saveSession.
MaxLog == 2

\* The shot logs saveSession is called with.
StorageLogs ==
    UNION {[1..n -> {NewShot(r, CENTER, 0) : r \in ShotResult}] : n \in 0..MaxLog}

\* storageService.saveSession(shots) on a storage that works.
SaveSessionCall(shots) ==
    /\ storageOk
    /\ Len(saveCalls) < MaxSessions
    /\ saveCalls' = Append(saveCalls, shots)
    /\ archive' = Append(archive, saveSession(shots, now))
    /\ localStorage' = setItem(localStorage, saveSession(shots, now))
    /\ UNCHANGED <<session, currentView, now, aiConnected, captured, crashed,
                   arrived, signals, timers, storageOk, started, builder,
                   service>>

\* storageService.clearAllStats(): the item is removed.
clearAllStats ==
    /\ storageOk
    /\ localStorage' = null
    /\ archive' = << >>
    /\ UNCHANGED <<session, currentView, now, aiConnected, captured, crashed,
                   arrived, signals, saveCalls, timers, storageOk, started,
                   builder, service>>

NextStorage ==
    \/ \E shots \in StorageLogs : SaveSessionCall(shots)
    \/ clearAllStats
    \/ Tick

SpecStorage == Init /\ [][NextStorage]_vars

\* ------------------------------------------------ the live service alone
\* Most sendFrame calls, and most function calls received.
MaxFrames == 2
MaxCalls == 2

\* A change of the service and of nothing else.
ServiceBecomes(next) ==
    /\ service' = next
    /\ UNCHANGED <<session, currentView, now, aiConnected, captured, crashed,
                   arrived, signals, archive, saveCalls, timers, storageOk,
                   started, builder, localStorage>>

\* connect(), called once by the effect that constructed the service:
\* active = true and sessionPromise = the promise of ai.live.connect.
Connect ==
    /\ ~service.connectCalled
    /\ ServiceBecomes([service EXCEPT !.connectCalled = TRUE,
                                      !.active = TRUE,
                                      !.sessionPromise = TRUE])

\* The promise of ai.live.connect resolves. The continuations waiting on it
\* run in the order they were registered: the sendFrame calls, which send
\* their frame without reading active again, and then a disconnect, which
\* sets sessionPromise = null.
Open ==
    /\ service.connectCalled
    /\ ~service.opened
    /\ ServiceBecomes([service EXCEPT
          !.opened = TRUE,
          !.awaiting = 0,
          !.framesSent = @ + service.awaiting,
          !.lateFrames = @ + (IF service.disconnectCalled
                              THEN service.awaiting ELSE 0),
          !.disconnectAwaiting = FALSE,
          !.sessionPromise = IF service.disconnectAwaiting THEN FALSE ELSE @])

\* sendFrame(base64Image), called by the streaming loop of CameraView.
sendFrame ==
    /\ service.sendCalls < MaxFrames
    /\ IF ~service.sessionPromise \/ ~service.active
       THEN ServiceBecomes([service EXCEPT !.sendCalls = @ + 1])
       ELSE IF service.opened
            THEN ServiceBecomes([service EXCEPT !.sendCalls = @ + 1,
                                               !.framesSent = @ + 1])
            ELSE ServiceBecomes([service EXCEPT !.sendCalls = @ + 1,
                                               !.awaiting = @ + 1])

\* disconnect(), called once by the cleanup of the effect: active = false,
\* then sessionPromise = null once the promise has been awaited. The live
\* session itself is not closed.
disconnect ==
    /\ service.connectCalled
    /\ ~service.disconnectCalled
    /\ ServiceBecomes([service EXCEPT
          !.disconnectCalled = TRUE,
          !.active = FALSE,
          !.disconnectAwaiting = ~service.opened,
          !.sessionPromise = IF service.opened THEN FALSE ELSE @])

\* The function calls a tool-call message can carry, ids apart.
ServiceCalls ==
    [name : {"logShot", "other"}, result : {"MAKE", "MISS"}, position : {"CENTER"}]

\* The calls of a message as they arrive, each with an id of its own.
WithIds(calls, first) ==
    [i \in DOMAIN calls |->
        [id |-> ToString(first + i), name |-> calls[i].name,
         result |-> calls[i].result, position |-> calls[i].position]]

\* What the loop of onmessage does for the calls of one message: for each
\* logShot call onShotDetected is invoked, and a tool response is queued on
\* sessionPromise if the field holds a promise.
Detections(functionCalls) ==
    LET logShots == SelectSeq(functionCalls, LAMBDA fc : fc.name = "logShot") IN
    [i \in DOMAIN logShots |->
        [kind |-> "onShotDetected", call |-> logShots[i].id,
         result |-> logShots[i].result, position |-> logShots[i].position]]

\* The tool responses the then callbacks of one message send.
Responses(functionCalls, sessionPromise) ==
    LET logShots == SelectSeq(functionCalls, LAMBDA fc : fc.name = "logShot") IN
    IF sessionPromise
    THEN [i \in DOMAIN logShots |->
            [kind |-> "sendToolResponse", id |-> logShots[i].id,
             name |-> logShots[i].name]]
    ELSE << >>

\* A tool-call message arrives on the live session, which is open whether
\* or not disconnect was called. The responses are sent by the then
\* callbacks, after the loop has run.
Message(calls) ==
    /\ service.opened
    /\ Len(service.received) + Len(calls) <= MaxCalls
    /\ LET functionCalls == WithIds(calls, Len(service.received)) IN
       ServiceBecomes([service EXCEPT
          !.received = @ \o functionCalls,
          !.effects = @ \o Detections(functionCalls)
                        \o Responses(functionCalls, service.sessionPromise)])

NextService ==
    \/ Connect
    \/ Open
    \/ sendFrame
    \/ disconnect
    \/ \E n \in 1..MaxBatch : \E calls \in [1..n -> ServiceCalls] : Message(calls)

SpecService == Init /\ [][NextService]_vars

\* ------------------------------------------------- vocabulary of the claims
\* The typed shot events a producer hands to handleShotRecorded.
Events == [result : ShotResult, position : CourtPosition]

\* A session exists and has not completed.
Active == session # NoSession /\ ~session.completed

\* steps[currentStepIndex] of an active session.
ActiveStep == session.steps[session.currentStepIndex + 1]

\* What one applyShot call on the current session returns for event e.
Call(e) == Updater(session, NewShot(e.result, e.position, now))

\* The call moves currentStepIndex forward.
Advances(e) == Call(e).state.currentStepIndex > session.currentStepIndex

\* Shots of a log at zone z, and the makes among them.
CountAt(shots, z) == Len(SelectSeq(shots, LAMBDA x : x.position = z))
MakesAt(shots, z) ==
    Len(SelectSeq(shots, LAMBDA x : x.position = z /\ x.result = MAKE))

\* A step of the session is one of a shot event: a tool-call message or an
\* arrow key.
ShotEventStep ==
    \/ \E n \in 1..MaxBatch : \E m \in Messages(n) : AIMessage(m)
    \/ \E key \in {"ArrowUp", "ArrowDown"} : KeyDown(key)

\* The session s as it was after the first k shots of its log.
RECURSIVE Replay(_, _)
Replay(s, k) ==
    IF k = 0
    THEN [s EXCEPT !.shots = << >>, !.currentStepIndex = 0,
                   !.isActive = TRUE, !.completed = FALSE]
    ELSE applyShot(Replay(s, k - 1), s.shots[k])

\* The step that was active when shot k of the log of s was applied.
StepWhenApplied(s, k) ==
    LET before == Replay(s, k - 1) IN before.steps[before.currentStepIndex + 1]

\* Shot j of the log was at the zone of the step active when it was applied.
OnTargetWhenApplied(s, j) ==
    s.shots[j].position = StepWhenApplied(s, j).position

\* The shots among the first k of the log that are at the zone of step and
\* were on target when applied.
CountedOnTarget(s, k, step) ==
    {j \in 1..k : s.shots[j].position = step.position /\ OnTargetWhenApplied(s, j)}

\* --------------------------------------------------------------------- C1
\* C1: once the session has completed, every further shot event is a no-op:
\* the step of a shot event taken from a completed session changes nothing
\* (shots and currentStepIndex included) and raises nothing.
C1_NoOpAfterCompletion ==
    [][(session # NoSession /\ session.completed /\ ShotEventStep)
          => UNCHANGED vars]_vars

\* --------------------------------------------------------------------- C2
\* C2: applyShot never fails: no updater of handleShotRecorded ever throws
\* (it never reads steps[currentStepIndex] outside the step list).
C2_ApplyShotNeverFails == ~crashed

\* --------------------------------------------------------------------- C3
\* C3: a shot that was off target when applied is never counted toward
\* progression: whenever a call completes a step, the step is complete on the
\* count of the shots that were on target when applied alone.
C3_OffTargetNeverCounted ==
    session # NoSession =>
        \A k \in 1..Len(session.shots) :
            LET before == Replay(session, k - 1)
                after == Replay(session, k)
                step == StepWhenApplied(session, k)
                counted == CountedOnTarget(session, k, step)
            IN after.currentStepIndex > before.currentStepIndex =>
                 StepComplete(step,
                    Cardinality(counted),
                    Cardinality({j \in counted : session.shots[j].result = MAKE}))

\* --------------------------------------------------------------------- C4
\* C4: an active step with targetAttempts = T >= 1 at zone Z completes
\* exactly on the call that logs the T-th shot at zone Z, of any outcome.
C4_AttemptPolicyExact ==
    (Active /\ Truthy(ActiveStep, "targetAttempts") /\ ActiveStep.targetAttempts >= 1) =>
        \A e \in Events :
            Advances(e) <=>
                (e.position = ActiveStep.position
                 /\ CountAt(session.shots, ActiveStep.position) + 1
                        = ActiveStep.targetAttempts)

\* --------------------------------------------------------------------- C5
\* C5: an active step with targetMakes = T >= 1 at zone Z and no attempt
\* threshold completes only on a call after which at least T makes at Z are
\* in the log, and a MISS at Z never advances currentStepIndex.
C5_MakePolicy ==
    (Active /\ Truthy(ActiveStep, "targetMakes") /\ ActiveStep.targetMakes >= 1
            /\ "targetAttempts" \notin DOMAIN ActiveStep) =>
        \A e \in Events :
            /\ Advances(e) =>
                 MakesAt(Call(e).state.shots, ActiveStep.position)
                    >= ActiveStep.targetMakes
            /\ (e.result = MISS /\ e.position = ActiveStep.position) => ~Advances(e)

\* --------------------------------------------------------------------- C6
\* C6: the log is complete: its length is the number of events that arrived
\* before the session completed.
C6_LogComplete ==
    session # NoSession => Len(session.shots) = arrived

\* --------------------------------------------------------------------- C7
\* C7: no applyShot call on a reachable session decreases currentStepIndex
\* or increases it by more than 1.
C7_Monotone ==
    session # NoSession =>
        \A e \in Events :
            Call(e).state.currentStepIndex \in
                {session.currentStepIndex, session.currentStepIndex + 1}

\* A step has just been completed and the threshold of the step now active
\* is already met by the shots logged before.
C7_Witness ==
    /\ Active
    /\ session.currentStepIndex >= 1
    /\ Len(session.shots) >= 1
    /\ Replay(session, Len(session.shots) - 1).currentStepIndex
          < session.currentStepIndex
    /\ LET rel == RelevantShots(session.shots, ActiveStep) IN
           StepComplete(ActiveStep, Attempts(rel), Makes(rel))

\* --------------------------------------------------------------------- C8
\* C8: completed, once true, stays true under every further shot event (so
\* it turns from false to true at most once in a session).
C8_TerminalUnique ==
    [][(session # NoSession /\ session.completed /\ ShotEventStep)
          => (session' # NoSession /\ session'.completed)]_vars

\* A completed session has been handed a further shot event.
C8_Witness == session # NoSession /\ session.completed /\ crashed

\* --------------------------------------------------------------------- C9
\* C9: a call whose event is not at the zone of steps[currentStepIndex]
\* returns the session with the shot appended to the log and nothing else
\* changed, and triggers no step-advanced feedback.
C9_ZoneIsolation ==
    Active =>
        \A e \in Events :
            e.position # ActiveStep.position =>
                /\ ~Call(e).signalled
                /\ ~Call(e).threw
                /\ Call(e).state =
                     [session EXCEPT !.shots =
                        Append(session.shots, NewShot(e.result, e.position, now))]

\* An off-target shot has been applied at a step other than the first, whose
\* threshold the log already met, and the step is still the active one.
C9_Witness ==
    /\ Active
    /\ Len(session.shots) >= 1
    /\ session.currentStepIndex >= 1
    /\ session.shots[Len(session.shots)].position # ActiveStep.position
    /\ Replay(session, Len(session.shots) - 1).currentStepIndex
          = session.currentStepIndex
    /\ LET rel == RelevantShots(session.shots, ActiveStep) IN
           StepComplete(ActiveStep, Attempts(rel), Makes(rel))

\* -------------------------------------------------------------------- C10
\* C10: 0 <= currentStepIndex <= steps.length, and currentStepIndex =
\* steps.length exactly when completed.
C10_IndexRange ==
    session # NoSession =>
        /\ session.currentStepIndex \in 0..Len(session.steps)
        /\ (session.currentStepIndex = Len(session.steps)) <=> session.completed

\* A session of several steps has completed.
C10_Witness ==
    /\ session # NoSession
    /\ session.completed
    /\ Len(session.steps) >= 2
    /\ session.currentStepIndex = Len(session.steps)

\* -------------------------------------------------------------------- C11
\* C11: in every reachable session state isActive is the negation of
\* completed: true from creation until the terminal transition, false once
\* completed is true.
C11_ActiveIffNotCompleted ==
    session # NoSession => (session.isActive <=> ~session.completed)

\* The terminal transition has fired on a session that logged an off-target
\* shot on its way.
C11_Witness ==
    /\ session # NoSession
    /\ session.completed
    /\ ~session.isActive
    /\ \E j \in 1..Len(session.shots) : ~OnTargetWhenApplied(session, j)

\* -------------------------------------------------------------------- C12
\* completed of the session turns from false (or no session) to true.
CompletedEdge ==
    /\ ~(session # NoSession /\ session.completed)
    /\ session' # NoSession /\ session'.completed

\* C12: storageService.saveSession is called exactly at the steps on which
\* a session becomes completed, with that session's final shot log, and at
\* no other step (later renders, navigation, the start of another drill).
C12_ArchivedExactlyOnce ==
    [][IF CompletedEdge
       THEN saveCalls' = Append(saveCalls, session'.shots)
       ELSE saveCalls' = saveCalls]_vars

\* Two sessions have completed and been handed over, and the app has been
\* navigated home after the second.
C12_Witness ==
    /\ started = 2
    /\ session # NoSession /\ session.completed
    /\ Len(saveCalls) = 2
    /\ saveCalls[2] = session.shots
    /\ currentView = HOME
    /\ ~crashed

\* -------------------------------------------------------------------- C13
\* A saveSession call threw: it was called and stored nothing.
SaveFailed == Len(saveCalls) > Len(archive)

\* C13: after saveSession has thrown in the completion handoff the session
\* is still the state of the running app, with completed true, isActive
\* false and currentStepIndex and the log at their final values.
C13_SaveFailureHarmless ==
    SaveFailed =>
        /\ ~crashed
        /\ session # NoSession
        /\ session.completed
        /\ ~session.isActive
        /\ session.currentStepIndex = Len(session.steps)
        /\ saveCalls[Len(saveCalls)] = session.shots

\* -------------------------------------------------------------------- C14
\* A well-formed step: exactly one threshold, a positive integer.
ValidStep(step) ==
    /\ ("targetAttempts" \in DOMAIN step) # ("targetMakes" \in DOMAIN step)
    /\ "targetAttempts" \in DOMAIN step => step.targetAttempts >= 1
    /\ "targetMakes" \in DOMAIN step => step.targetMakes >= 1

\* C14: no session is ever started with an empty step list or a step that
\* is not well-formed, whatever is selected and typed in the builder.
C14_ProgramsValid ==
    session # NoSession =>
        /\ Len(session.steps) >= 1
        /\ \A i \in DOMAIN session.steps : ValidStep(session.steps[i])

\* -------------------------------------------------------------------- C16
\* C16: for an active session the instruction names the zone of the active
\* step and shows current / target, where target is the step's threshold
\* and current the count of the whole log the engine compares with it:
\* attempts at the zone for an attempt step, makes at the zone for a make
\* step; so current reaches target exactly when the engine's test of the
\* step holds on the log.
C16_InstructionMatchesEngine ==
    Active =>
        LET ins == getInstruction(session)
            zone == ActiveStep.position
            rel == RelevantShots(session.shots, ActiveStep)
        IN
        /\ ins.text = "Move to"
        /\ ins.position = zone
        /\ "targetAttempts" \in DOMAIN ActiveStep =>
              /\ ins.target = ActiveStep.targetAttempts
              /\ ins.currentCount = CountAt(session.shots, zone)
        /\ "targetMakes" \in DOMAIN ActiveStep =>
              /\ ins.target = ActiveStep.targetMakes
              /\ ins.currentCount = MakesAt(session.shots, zone)
        /\ (ins.currentCount >= ins.target)
              <=> StepComplete(ActiveStep, Attempts(rel), Makes(rel))

\* A make step is active with a make and a miss at its zone in the log and
\* one make to go.
C16_Witness ==
    /\ Active
    /\ "targetMakes" \in DOMAIN ActiveStep
    /\ MakesAt(session.shots, ActiveStep.position) = 1
    /\ CountAt(session.shots, ActiveStep.position) = 2
    /\ ActiveStep.targetMakes = 2

\* -------------------------------------------------------------------- C17
\* C17: getActivePosition is undefined exactly when there is no session or
\* the session is completed, and is the zone of the active step otherwise;
\* neither helper reads session.steps outside 0 .. steps.length - 1, in
\* particular not when currentStepIndex = steps.length.
C17_ActivePosition ==
    /\ (getActivePosition(session) = undefined)
          <=> (session = NoSession \/ session.completed)
    /\ Active => getActivePosition(session) = ActiveStep.position
    /\ session # NoSession =>
          /\ StepLookups(session) \subseteq 0..(Len(session.steps) - 1)
          /\ session.currentStepIndex = Len(session.steps) =>
                getInstruction(session) = [text |-> "Drill Complete!"]

\* The index stands at steps.length after the second step of a drill.
C17_Witness ==
    /\ session # NoSession
    /\ session.currentStepIndex = Len(session.steps)
    /\ session.currentStepIndex = 2
    /\ getActivePosition(session) = undefined
    /\ currentView = ACTIVE_DRILL

\* -------------------------------------------------------------------- C18
\* A step that starts a drill, from the builder or the catalog.
StartStep ==
    \/ \E ps \in AppSelections \ {<< >>}, mb \in BOOLEAN, text \in ThresholdTexts :
          CreateCustom(ps, mb, text)
    \/ \E i \in DOMAIN predefinedDrills : SelectDrill(i)

\* C18: every start of a drill yields a session at index 0 with an empty
\* log, active and not completed, whatever session existed before, and
\* triggers no saveSession call and no step-advanced feedback.
C18_FreshSession ==
    [][StartStep =>
          /\ session'.currentStepIndex = 0
          /\ session'.shots = << >>
          /\ session'.isActive
          /\ ~session'.completed
          /\ saveCalls' = saveCalls
          /\ archive' = archive
          /\ signals' = signals]_vars

\* A second drill has just been started after a first one that completed
\* with shots in its log and was archived.
C18_Witness ==
    /\ started = 2
    /\ currentView = ACTIVE_DRILL
    /\ session # NoSession /\ session.shots = << >> /\ ~session.completed
    /\ Len(saveCalls) = 1 /\ Len(saveCalls[1]) >= 1
    /\ signals >= 1

\* -------------------------------------------------------------------- C15
\* C15: a step with both thresholds set follows the attempt policy: a shot
\* at its zone completes it exactly when the attempts at the zone, that
\* shot included, reach targetAttempts, whatever the makes.
C15_AttemptPolicyWins ==
    (Active /\ Truthy(ActiveStep, "targetAttempts")
            /\ Truthy(ActiveStep, "targetMakes")) =>
        \A e \in EngineEvents :
            e.position = ActiveStep.position =>
                (Advances(e) <=>
                    CountAt(session.shots, ActiveStep.position) + 1
                        >= ActiveStep.targetAttempts)

\* -------------------------------------------------------------------- C19
\* The (outcome, zone) pairs of a log.
Pairs(shots) ==
    [i \in 1..Len(shots) |->
        [result |-> shots[i].result, position |-> shots[i].position]]

\* The events of one task that meet the session not yet completed, each
\* applied to the result of the one before.
RECURSIVE AppliedWhileActive(_, _)
AppliedWhileActive(prev, events) ==
    IF events = << >> \/ prev.completed THEN << >>
    ELSE << Head(events) >>
         \o AppliedWhileActive(
                applyShot(prev, NewShot(Head(events).result,
                                        Head(events).position, now)),
                Tail(events))

\* C19: the events of one task are applied one at a time in arrival order:
\* after the task the log is the log before followed, in order, by every
\* event that met the session active.
C19_InArrivalOrder ==
    [][Active =>
        /\ \A n \in 1..MaxBatch : \A m \in Messages(n) :
              AIMessage(m) =>
                 Pairs(session'.shots)
                    = Pairs(session.shots) \o AppliedWhileActive(session, onmessage(m))
        /\ \A key \in {"ArrowUp", "ArrowDown"} :
              KeyDown(key) => Len(session'.shots) = Len(session.shots) + 1]_vars

\* -------------------------------------------------------------------- C20
\* What the claim compares of a session: the index, the flags and the
\* (outcome, zone) pairs of the log.
Observable(s) ==
    [currentStepIndex |-> s.currentStepIndex,
     isActive |-> s.isActive,
     completed |-> s.completed,
     log |-> [i \in 1..Len(s.shots) |->
                << s.shots[i].result, s.shots[i].position >>]]

\* A run of the program steps fed the first k shots of a log as events, with
\* every id and timestamp taken at clock reading t.
RECURSIVE RunAt(_, _, _, _)
RunAt(steps, shots, k, t) ==
    IF k = 0 THEN NewSession(steps, t)
    ELSE applyShot(RunAt(steps, shots, k - 1, t),
                   NewShot(shots[k].result, shots[k].position, t))

\* C20: the session reached by a run agrees, in index, flags and the
\* (outcome, zone) pairs of its log, with every other run of the same
\* program fed the same events under other ids and timestamps.
C20_Determinism ==
    \A t \in 0..MaxClock :
        Observable(session)
            = Observable(RunAt(session.steps, session.shots,
                               Len(session.shots), t))

\* A run whose shots carry different timestamps has completed a step.
C20_Witness ==
    /\ Len(session.shots) >= 2
    /\ session.shots[1].timestamp # session.shots[Len(session.shots)].timestamp
    /\ session.shots[1].position = session.shots[Len(session.shots)].position
    /\ session.currentStepIndex >= 1

\* -------------------------------------------------------------------- C21
\* C21: no two shots of a session's log share an id, also when they are
\* recorded at the same reading of the clock.
C21_UniqueShotIds ==
    \A i, j \in 1..Len(session.shots) :
        i # j => session.shots[i].id # session.shots[j].id

\* -------------------------------------------------------------------- C23
\* The same zone stands at two places of the list.
HasDuplicate(zones) ==
    \E i, j \in DOMAIN zones : i # j /\ zones[i] = zones[j]

\* The zones of a step list, in order.
ZonesOf(steps) == [i \in DOMAIN steps |-> steps[i].position]

\* C23 as stated: some sequence of builder actions leads, from the list the
\* builder holds, to a zone list in which a zone appears more than once.
C23_DuplicateZonesAccepted ==
    \E sel \in BuilderClosure({builder.selectedPositions}) : HasDuplicate(sel)

\* C23 amended: the zone list of the builder never holds a zone twice, and
\* no program the builder passes to startDrill has two steps with the same
\* zone.
C23_NoDuplicateZones ==
    /\ ~HasDuplicate(builder.selectedPositions)
    /\ session # NoSession => ~HasDuplicate(ZonesOf(session.steps))

\* A drill of all three zones, reordered with RIGHT first, has been started
\* from the builder.
C23_Witness ==
    /\ session # NoSession
    /\ Len(session.steps) = 3
    /\ session.steps[1].position = RIGHT
    /\ session.steps[3].position = LEFT

\* -------------------------------------------------------------------- C24
\* C24: the program the builder starts has one step per selected zone in
\* the selected order, each with exactly the threshold of the chosen policy
\* and the value the builder holds for it.
C24_BuilderProgram ==
    [][(StartCustom /\ Len(builder.selectedPositions) > 0) =>
          /\ ZonesOf(session'.steps) = builder.selectedPositions
          /\ \A i \in DOMAIN session'.steps :
                IF builder.isMakeBased
                THEN /\ DOMAIN session'.steps[i] = {"position", "targetMakes"}
                     /\ session'.steps[i].targetMakes = builder.targetMakes
                ELSE /\ DOMAIN session'.steps[i] = {"position", "targetAttempts"}
                     /\ session'.steps[i].targetAttempts = builder.shotsPerPosition]_vars

\* A make-based drill of two zones with a typed threshold has been started
\* from the builder.
C24_Witness ==
    /\ session # NoSession
    /\ Len(session.steps) = 2
    /\ session.steps[1].position = CENTER
    /\ \A i \in DOMAIN session.steps :
          "targetMakes" \in DOMAIN session.steps[i]
          /\ session.steps[i].targetMakes = 1

\* -------------------------------------------------------------------- C25
\* C25: the step-advanced feedback runs exactly on the calls that increase
\* currentStepIndex, so the feedbacks triggered for the session number as
\* many as its currentStepIndex.
C25_FeedbackPerAdvance ==
    session # NoSession => signals = session.currentStepIndex

\* -------------------------------------------------------------------- C26
\* The step has neither threshold set.
NoThreshold(step) ==
    "targetAttempts" \notin DOMAIN step /\ "targetMakes" \notin DOMAIN step

\* C26: while a step with neither threshold is the active step no shot
\* event increases currentStepIndex, and a session that begins with such a
\* step stays at index 0 and never completes.
C26_BareStepNeverCompletes ==
    /\ (Active /\ NoThreshold(ActiveStep)) =>
            \A e \in EngineEvents : ~Advances(e) /\ ~Call(e).state.completed
    /\ NoThreshold(session.steps[1]) =>
            session.currentStepIndex = 0 /\ ~session.completed

\* A step with no threshold is active after as many makes at its zone as
\* the log holds.
C26_Witness ==
    /\ Active
    /\ NoThreshold(ActiveStep)
    /\ Len(session.shots) = MaxShots
    /\ MakesAt(session.shots, ActiveStep.position) = MaxShots

\* -------------------------------------------------------------------- C28
\* C28: while the session is active the instruction of the active step
\* shows a count below its target.
C28_DisplayBelowTarget ==
    Active =>
        getInstruction(session).currentCount < getInstruction(session).target

\* -------------------------------------------------------------------- C22
\* The strings the logShot tool declares for its two arguments.
RecognizedResults == {"MAKE", "MISS"}
RecognizedPositions == {"LEFT", "CENTER", "RIGHT"}

\* C22: the event a logShot call of a tool-call message hands to
\* handleShotRecorded, and the shot it logs, has a result of ShotResult and
\* a position of CourtPosition; a recognized string arrives unchanged, an
\* unrecognized result arrives as MISS and an unrecognized position as
\* CENTER.
C22_IngressNormalized ==
    [][\A fc \in LiveCalls :
          (AIMessage(<< fc >>) /\ session # NoSession
              /\ Len(session'.shots) = Len(session.shots) + 1) =>
            LET e == onmessage(<< fc >>)[1]
                shot == session'.shots[Len(session'.shots)]
            IN /\ e \in Events
               /\ shot.result = e.result /\ shot.position = e.position
               /\ e.result = (IF fc.result \in RecognizedResults
                              THEN fc.result ELSE MISS)
               /\ e.position = (IF fc.position \in RecognizedPositions
                                THEN fc.position ELSE CENTER)]_vars

\* The first shot of a drill that begins at LEFT is a miss at CENTER: the
\* call with the unrecognized strings has been logged.
C22_Witness ==
    /\ session # NoSession
    /\ session.steps[1].position = LEFT
    /\ Len(session.shots) >= 1
    /\ session.shots[1].result = MISS
    /\ session.shots[1].position = CENTER

\* -------------------------------------------------------------------- C27
\* Each step of the running drill has exactly one threshold, of 1 or more.
ValidProgram ==
    /\ session # NoSession
    /\ \A i \in DOMAIN session.steps : ValidStep(session.steps[i])

\* C27: a drill of valid steps whose user keeps scoring at the active zone
\* eventually completes.
C27_EventuallyCompleted ==
    (ValidProgram /\ ~session.completed) ~>
        (session # NoSession /\ session.completed)

\* -------------------------------------------------------------------- C30
\* C30: once the session has completed, and nobody navigates, the view
\* becomes STATS, whether the save at completion succeeds or fails.
C30_EventuallyStats ==
    (session # NoSession /\ session.completed) ~> (currentView = STATS)

\* -------------------------------------------------------------------- C29
\* The result an arrow key stands for.
KeyResult(key) == IF key = "ArrowUp" THEN MAKE ELSE MISS

C31_StaleTimerHarmless ==
    [][(RedirectTimer /\ ~crashed /\ Active /\ currentView = ACTIVE_DRILL) =>
          currentView' = ACTIVE_DRILL]_vars

\* -------------------------------------------------------------------- C32
\* C32: a tool-call message that arrives while no CameraView is mounted,
\* so on a connection whose CameraView has called disconnect, adds no shot
\* to the log of the session.
C32_NoShotAfterDisconnect ==
    [][\A fc \in AppCalls :
          (AIMessage(<< fc >>) /\ session # NoSession /\ ~CameraMounted) =>
              session'.shots = session.shots]_vars

\* -------------------------------------------------------------------- C35
\* C35: after saveSession(shots), getAllSessions returns the sessions it
\* returned before, in their order, followed by one new record whose shots
\* are the saved log, whose totalShots is the length of the log and whose
\* makes is the number of its MAKE shots; after clearAllStats it returns
\* the empty list.
C35_SaveThenRead ==
    [][/\ \A shots \in StorageLogs :
            SaveSessionCall(shots) =>
              LET before == getAllSessions(localStorage)
                  after == getAllSessions(localStorage')
                  new == after[Len(after)]
              IN /\ Len(after) = Len(before) + 1
                 /\ SubSeq(after, 1, Len(before)) = before
                 /\ new.shots = shots
                 /\ new.totalShots = Len(shots)
                 /\ new.makes = Len(SelectSeq(shots, LAMBDA x : x.result = MAKE))
                 /\ after = archive'
       /\ clearAllStats => getAllSessions(localStorage') = << >>]_vars

\* Two logs have been saved at different readings of the clock, the second
\* after the first: the records read back are that of the first log, of a
\* make and a miss, and that of the second, an empty one.
C35_Witness ==
    /\ Len(saveCalls) = 2
    /\ Len(getAllSessions(localStorage)) = 2
    /\ getAllSessions(localStorage)[1].totalShots = 2
    /\ getAllSessions(localStorage)[1].makes = 1
    /\ getAllSessions(localStorage)[1].shots = saveCalls[1]
    /\ getAllSessions(localStorage)[1].date < getAllSessions(localStorage)[2].date
    /\ getAllSessions(localStorage)[2].shots = << >>

\* -------------------------------------------------------------------- C33
\* C33: no frame is sent to the live session after disconnect was called,
\* by a sendFrame call started later or by one that was waiting for the
\* session promise.
C33_NoFrameAfterDisconnect == service.lateFrames = 0

\* -------------------------------------------------------------------- C34
\* The places of the effects of the service that satisfy a test.
EffectsWhere(Test(_)) ==
    {i \in DOMAIN service.effects : Test(service.effects[i])}

\* C34: every logShot call received has exactly one onShotDetected, with
\* its result and position, and exactly one tool response with its id,
\* sent after it; a call of another name has neither.
C34_OneDetectionOneResponse ==
    \A k \in DOMAIN service.received :
        LET fc == service.received[k]
            detected == EffectsWhere(LAMBDA x :
                            x.kind = "onShotDetected" /\ x.call = fc.id)
            answered == EffectsWhere(LAMBDA x :
                            x.kind = "sendToolResponse" /\ x.id = fc.id)
        IN IF fc.name = "logShot"
           THEN /\ Cardinality(detected) = 1
                /\ Cardinality(answered) = 1
                /\ \A i \in detected :
                      /\ service.effects[i].result = fc.result
                      /\ service.effects[i].position = fc.position
                      /\ \A j \in answered : i < j
           ELSE detected = {} /\ answered = {}

====
